---- MODULE Spec2Model ----
(***************************************************************************)
(* A model of job_search.py: the job sources (search, normalize, the       *)
(* relevance filter, get_jobs), standardize_column_names and main().       *)
(*                                                                         *)
(* Python strings are tuples of one-character strings, so that lower(),    *)
(* replace(), startswith() and the regular expression of the relevance     *)
(* filter are computed character by character.  A cell of a DataFrame or a *)
(* value of a raw record is a record [k, s, n]: its kind, its characters   *)
(* and its number.  A DataFrame is [err, cols, names, rows]: err is "ok" or *)
(* the name of the exception the computation raised, cols identifies the   *)
(* columns, names gives each column its label (rename changes the labels,  *)
(* and two columns may come to carry the same label), and a row maps each  *)
(* column to its cell.                                                     *)
(***************************************************************************)
EXTENDS Integers, Sequences, FiniteSets, TLC

VARIABLES
    pc,          \* position of the process the specification is about
    src,         \* the source at work (its name, as in main's sources dict)
    now,         \* pd.Timestamp.now() / utcnow(), in hours
    raw_data,    \* what search() returned
    norm,        \* what normalize(raw_data) returned
    jobs_df,     \* what filter_design_tech_jobs(norm) returned
    std_df,      \* what standardize_column_names(jobs_df, ...) returned
    web,         \* the pages of the site, by page number
    max_pages,   \* self.max_pages of the source object
    page,        \* the loop variable of a paginated search()
    fetched,     \* the pages fetched so far, in order
    all_jobs,    \* the jobs collected by search(); main's dict of frames
    total_jobs,  \* main's running total
    todo,        \* main: the sources still to be processed, in order
    mail         \* main: the rendered document and what became of it

\* what the stages of get_jobs() and standardize_column_names produce
pipeVars == <<raw_data, norm, jobs_df, std_df>>

\* what a paginated search() reads and writes
searchVars == <<web, max_pages, page, fetched>>

\* what main's loop writes
mainVars == <<all_jobs, total_jobs, todo, mail>>

vars == <<pc, src, now, pipeVars, searchVars, mainVars>>

(***************************************************************************)
(* Strings                                                                 *)
(***************************************************************************)
UpperChars == <<"A", "B", "C", "D", "E", "F", "G", "H", "I", "J", "K", "L", "M",
                "N", "O", "P", "Q", "R", "S", "T", "U", "V", "W", "X", "Y", "Z">>

LowerChars == <<"a", "b", "c", "d", "e", "f", "g", "h", "i", "j", "k", "l", "m",
                "n", "o", "p", "q", "r", "s", "t", "u", "v", "w", "x", "y", "z">>

\* str.lower() on one character
lower_char(c) ==
    IF \E i \in 1..Len(UpperChars) : UpperChars[i] = c
    THEN LowerChars[CHOOSE i \in 1..Len(UpperChars) : UpperChars[i] = c]
    ELSE c

\* str.lower()
lower(s) == [i \in 1..Len(s) |-> lower_char(s[i])]

\* str.replace(c, ''): every occurrence of the character c removed
replace_char(s, c) == SelectSeq(s, LAMBDA x : x # c)

\* the word w stands in s at position i
MatchAt(s, i, w) ==
    /\ i >= 1
    /\ i + Len(w) - 1 <= Len(s)
    /\ \A k \in 1..Len(w) : s[i + k - 1] = w[k]

\* str.startswith(w)
startswith(s, w) == MatchAt(s, 1, w)

\* w in s
contains(s, w) == \E i \in 1..(Len(s) + 1) : MatchAt(s, i, w)

\* \s of the regular expression
IsSpace(c) == c \in {" ", "\t", "\n"}

\* d\s*&\s*t somewhere in s
MatchDAndT(s) ==
    \E i, j, k \in 1..Len(s) :
        /\ i < j /\ j < k
        /\ s[i] = "d" /\ s[j] = "&" /\ s[k] = "t"
        /\ \A m \in (i + 1)..(j - 1) : IsSpace(s[m])
        /\ \A m \in (j + 1)..(k - 1) : IsSpace(s[m])

\* re.search(r'(design|technology|d\s*&\s*t)', s) without regard to case
search_case_sensitive(s) ==
    \/ contains(s, <<"d", "e", "s", "i", "g", "n">>)
    \/ contains(s, <<"t", "e", "c", "h", "n", "o", "l", "o", "g", "y">>)
    \/ MatchDAndT(s)

pattern_search(s) == search_case_sensitive(lower(s))

(***************************************************************************)
(* Values                                                                  *)
(***************************************************************************)
Str(s)  == [k |-> "str",  s |-> s,    n |-> 0]
NaN     == [k |-> "nan",  s |-> <<>>, n |-> 0]
None    == [k |-> "none", s |-> <<>>, n |-> 0]
NaT     == [k |-> "nat",  s |-> <<>>, n |-> 0]
Num(n)  == [k |-> "int",  s |-> <<>>, n |-> n]
\* the text of a date: its format and the moment it names, in hours
DateText(fmt, t) == [k |-> "date", s |-> <<fmt>>, n |-> t]
\* a pd.Timestamp: tz is "utc" (timezone-aware) or "naive"
Timestamp(tz, t) == [k |-> "ts", s |-> <<tz>>, n |-> t]

\* pd.isna / pd.notna
isna(v) == v.k \in {"nan", "none", "nat"}

(***************************************************************************)
(* DataFrames                                                              *)
(***************************************************************************)
\* pd.DataFrame()
EmptyFrame == [err |-> "ok", cols |-> {}, names |-> <<>>, rows |-> <<>>]

\* an exception raised instead of a frame
Raise(e) == [err |-> e, cols |-> {}, names |-> <<>>, rows |-> <<>>]

\* pd.DataFrame(list of dicts): the columns are the union of the keys, and a
\* key a dict lacks is NaN in its row
DataFrame(raw) ==
    LET cols == UNION {DOMAIN raw[i] : i \in 1..Len(raw)}
    IN  [err   |-> "ok",
         cols  |-> cols,
         names |-> [c \in cols |-> c],
         rows  |-> [i \in 1..Len(raw) |->
                     [c \in cols |-> IF c \in DOMAIN raw[i] THEN raw[i][c] ELSE NaN]]]

\* the rows of a frame
Rows(df) == {df.rows[i] : i \in 1..Len(df.rows)}

\* df[c] = f, where f gives the new value of each row
SetCol(df, c, f) ==
    [err   |-> df.err,
     cols  |-> df.cols \cup {c},
     names |-> [x \in df.cols \cup {c} |-> IF x = c THEN c ELSE df.names[x]],
     rows  |-> [i \in 1..Len(df.rows) |->
                 [x \in df.cols \cup {c} |->
                     IF x = c THEN f[df.rows[i]] ELSE df.rows[i][x]]]]

\* df.empty
IsEmpty(df) == df.cols = {} \/ df.rows = <<>>

\* len(df)
FrameLen(df) == Len(df.rows)

(***************************************************************************)
(* JobSource.filter_design_tech_jobs                                       *)
(***************************************************************************)
\* df.get(c, pd.Series()).fillna('').str.contains(pattern, case=False) at one
\* row of a frame that has the column c
cell_match(row, c) == row[c].k = "str" /\ pattern_search(row[c].s)

\* title_match | desc_match, by index label.  A column the frame lacks gives
\* an empty Series; `|` aligns the two on the union of their indexes, and
\* pandas' logical `|` gives NaN | x = False and x | NaN = x.
row_mask(df, row) ==
    IF "title" \in df.cols
    THEN cell_match(row, "title")
         \/ ("shortDescription" \in df.cols /\ cell_match(row, "shortDescription"))
    ELSE FALSE

\* a filter that goes on to drop the columns left without a value in any
\* row, as df.dropna(axis=1, how='all') would
filter_dropping_columns(df) ==
    IF df.err # "ok" THEN df
    ELSE IF IsEmpty(df) THEN df
    ELSE IF "title" \notin df.cols /\ "shortDescription" \notin df.cols
         THEN Raise("IndexingError")
    ELSE LET rows == SelectSeq(df.rows, LAMBDA r : row_mask(df, r))
             keep == {c \in df.cols : \E i \in 1..Len(rows) : ~isna(rows[i][c])}
         IN  [err   |-> "ok",
              cols  |-> keep,
              names |-> [c \in keep |-> df.names[c]],
              rows  |-> [i \in 1..Len(rows) |-> [c \in keep |-> rows[i][c]]]]

\* JobSource.filter_design_tech_jobs
filter_design_tech_jobs(df) ==
    IF df.err # "ok" THEN df
    ELSE IF IsEmpty(df) THEN df
    ELSE IF "title" \notin df.cols /\ "shortDescription" \notin df.cols
         \* both Series are empty: df[mask] cannot align the mask with the rows
         THEN Raise("IndexingError")
    ELSE [df EXCEPT !.rows = SelectSeq(df.rows, LAMBDA r : row_mask(df, r))]

(***************************************************************************)
(* Dates                                                                   *)
(***************************************************************************)
\* hours in a day: Timedelta.days counts whole days
HoursPerDay == 24

\* pd.Timedelta(days=7)
RecentDays == 7

\* what a parser gives for a text it cannot read, before `errors` decides
BadDate == [k |-> "bad", s |-> <<>>, n |-> 0]

\* pd.to_datetime(x) for one value, no format given: ISO texts and
\* "11 May 2025" are read, a trailing Z makes the result timezone-aware
to_datetime_value(v) ==
    IF isna(v) THEN NaT
    ELSE IF v.k = "date" /\ v.s[1] = "iso_z" THEN Timestamp("utc", v.n)
    ELSE IF v.k = "date" /\ v.s[1] \in {"iso", "d_month_y"} THEN Timestamp("naive", v.n)
    ELSE BadDate

\* pd.to_datetime(x, format='%d/%m/%Y %H:%M') for one value
to_datetime_format(v) ==
    IF isna(v) THEN NaT
    ELSE IF v.k = "date" /\ v.s[1] = "dmy_hm" THEN Timestamp("naive", v.n)
    ELSE BadDate

\* errors='coerce'
coerce(v) == IF v.k = "bad" THEN NaT ELSE v

\* pd.to_datetime(x) or pd.to_datetime(x, format='%d/%m/%Y %H:%M')
to_datetime(v, format) ==
    IF format = "dmy_hm" THEN to_datetime_format(v) ELSE to_datetime_value(v)

ColValues(df, c) == {df.rows[i][c] : i \in 1..Len(df.rows)}

HasBad(df, c) == \E v \in ColValues(df, c) : v.k = "bad"

HasTz(df, c, tz) == \E v \in ColValues(df, c) : v.k = "ts" /\ v.s[1] = tz

\* a column cannot hold timezone-aware and timezone-naive moments together
MixedTz(df, c) == HasTz(df, c, "utc") /\ HasTz(df, c, "naive")

\* the dtype of a datetime column: aware only if it holds an aware moment
ColumnTz(df, c) == IF HasTz(df, c, "utc") THEN "utc" ELSE "naive"

\* df[c].isna().all()
AllNa(df, c) == \A v \in ColValues(df, c) : isna(v)

\* whole days counted by cutting the fraction off, so rounded toward zero
days_toward_zero(x, t_now) ==
    IF x.k # "ts" THEN NaN
    ELSE IF x.n >= t_now THEN Num((x.n - t_now) \div HoursPerDay)
    ELSE Num(0 - ((t_now - x.n) \div HoursPerDay))

\* (x - now).days: whole days, rounded toward minus infinity; NaT gives NaN
days_between(x, t_now) ==
    IF x.k = "ts" THEN Num((x.n - t_now) \div HoursPerDay) ELSE NaN

\* x.strftime('%d %B %Y, %H:%M'); NaT gives NaN
strftime(x) == IF x.k = "ts" THEN DateText("d_B_Y_HM", x.n) ELSE NaN

(***************************************************************************)
(* TesJobSource.normalize                                                  *)
(***************************************************************************)
TesUrlPrefix == <<"h", "t", "t", "p", "s", ":", "/", "/", "w", "w", "w", ".",
                  "t", "e", "s", ".", "c", "o", "m">>

NoUrlAvailable == <<"N", "o", " ", "U", "R", "L", " ", "a", "v", "a", "i", "l",
                    "a", "b", "l", "e">>

\* lambda x: 'recent' if x >= seven_days_ago else 'older'; NaT >= t is False
tes_status(x, t_now) ==
    IF x.k = "ts" /\ x.n >= t_now - RecentDays * HoursPerDay
    THEN Str(<<"r", "e", "c", "e", "n", "t">>)
    ELSE Str(<<"o", "l", "d", "e", "r">>)

\* lambda x: f"https://www.tes.com{x}" if pd.notna(x) else "No URL available"
tes_full_url(x) == IF isna(x) THEN Str(NoUrlAvailable) ELSE Str(TesUrlPrefix \o x.s)

\* lines 119-125, once the two date columns are parsed and compared with now
TesNormalizeTail(df, t_now) ==
    LET d1 == SetCol(df, "status", [r \in Rows(df) |-> tes_status(r["advert_startDate"], t_now)])
        d2 == SetCol(d1, "days_to_apply",
                     [r \in Rows(d1) |-> days_between(r["application_closeDate"], t_now)])
    IN  IF "url" \notin df.cols THEN Raise("KeyError")
        ELSE
        LET d3 == SetCol(d2, "full_url", [r \in Rows(d2) |-> tes_full_url(r["url"])])
            d4 == SetCol(d3, "advert_startDate_formatted",
                         [r \in Rows(d3) |-> strftime(r["advert_startDate"])])
            d5 == SetCol(d4, "application_closeDate_formatted",
                         [r \in Rows(d4) |-> strftime(r["application_closeDate"])])
        IN  IF "advert_endDate" \notin df.cols THEN d5
            ELSE
            LET d6 == SetCol(d5, "advert_endDate",
                             [r \in Rows(d5) |-> to_datetime_value(r["advert_endDate"])])
            IN  IF HasBad(d6, "advert_endDate") \/ MixedTz(d6, "advert_endDate")
                THEN Raise("ValueError")
                ELSE SetCol(d6, "advert_endDate_formatted",
                            [r \in Rows(d6) |-> strftime(r["advert_endDate"])])

\* now is pd.Timestamp.utcnow(), timezone-aware
TesNormalize(raw, t_now) ==
    IF raw = <<>> THEN EmptyFrame
    ELSE
    LET df == DataFrame(raw)
    IN  IF "advert_startDate" \notin df.cols THEN Raise("KeyError")
        ELSE
        LET d1 == SetCol(df, "advert_startDate",
                         [r \in Rows(df) |-> to_datetime_value(r["advert_startDate"])])
        IN  IF HasBad(d1, "advert_startDate") \/ MixedTz(d1, "advert_startDate")
            THEN Raise("ValueError")
            ELSE IF "application_closeDate" \notin df.cols THEN Raise("KeyError")
            ELSE
            LET d2 == SetCol(d1, "application_closeDate",
                             [r \in Rows(d1) |-> to_datetime_value(r["application_closeDate"])])
            IN  IF HasBad(d2, "application_closeDate") \/ MixedTz(d2, "application_closeDate")
                THEN Raise("ValueError")
                \* x >= seven_days_ago compares each moment with an aware one
                ELSE IF HasTz(d2, "advert_startDate", "naive") THEN Raise("TypeError")
                \* the column minus an aware now needs an aware column
                ELSE IF ColumnTz(d2, "application_closeDate") # "utc" THEN Raise("TypeError")
                ELSE TesNormalizeTail(d2, t_now)

(***************************************************************************)
(* The normalize() of the sources scraped from HTML                        *)
(***************************************************************************)
GovUrlPrefix == <<"h", "t", "t", "p", "s", ":", "/", "/", "t", "e", "a", "c", "h",
                  "i", "n", "g", "-", "v", "a", "c", "a", "n", "c", "i", "e", "s",
                  ".", "s", "e", "r", "v", "i", "c", "e", ".", "g", "o", "v", ".",
                  "u", "k">>

RaaUrlPrefix == <<"h", "t", "t", "p", "s", ":", "/", "/", "r", "a", "a", "s", "c",
                  "h", "o", "o", "l", ".", "f", "a", "c", "e", "-", "e", "d", ".",
                  "c", "o", ".", "u", "k">>

Current == <<"c", "u", "r", "r", "e", "n", "t">>

Permanent == <<"P", "e", "r", "m", "a", "n", "e", "n", "t">>

Temporary == <<"T", "e", "m", "p", "o", "r", "a", "r", "y">>

NotSpecified == <<"N", "o", "t", " ", "s", "p", "e", "c", "i", "f", "i", "e", "d">>

\* if 'closing_date' in df.columns: the close date parsed with errors='coerce'
\* and the text kept as the formatted date
ClosingDateBlock(df, format) ==
    IF "closing_date" \notin df.cols THEN df
    ELSE LET d1 == SetCol(df, "application_closeDate",
                          [r \in Rows(df) |-> coerce(to_datetime(r["closing_date"], format))])
         IN  SetCol(d1, "application_closeDate_formatted", [r \in Rows(d1) |-> r["closing_date"]])

\* df['days_to_apply'] = (df['application_closeDate'] - now).dt.days with a
\* timezone-naive now: an aware column cannot be subtracted from
DaysToApply(df, t_now) ==
    IF MixedTz(df, "application_closeDate") THEN Raise("ValueError")
    ELSE IF ColumnTz(df, "application_closeDate") # "naive" THEN Raise("TypeError")
    ELSE SetCol(df, "days_to_apply",
                [r \in Rows(df) |-> days_between(r["application_closeDate"], t_now)])

\* if 'application_closeDate' in df.columns and not ....isna().all()
DaysBlock(df, t_now) ==
    IF "application_closeDate" \in df.cols /\ ~AllNa(df, "application_closeDate")
    THEN DaysToApply(df, t_now)
    ELSE df

\* lambda x: f"{prefix}{x}" if x.startswith('/') else x, on a column that
\* holds something other than a string (NaN, None): AttributeError
PrefixUrlBlock(df, prefix) ==
    IF df.err # "ok" \/ "url" \notin df.cols THEN df
    ELSE IF \E v \in ColValues(df, "url") : v.k # "str" THEN Raise("AttributeError")
    ELSE SetCol(df, "full_url",
                [r \in Rows(df) |-> IF startswith(r["url"].s, <<"/">>)
                           THEN Str(prefix \o r["url"].s) ELSE r["url"]])

\* df['full_url'] = df['url']
CopyUrlBlock(df) ==
    IF df.err # "ok" \/ "url" \notin df.cols THEN df
    ELSE SetCol(df, "full_url", [r \in Rows(df) |-> r["url"]])

\* df[c] = df[d], when the frame has d
CopyColBlock(df, c, d) ==
    IF df.err # "ok" \/ d \notin df.cols THEN df
    ELSE SetCol(df, c, [r \in Rows(df) |-> r[d]])

\* df[c] = 'text'
ConstCol(df, c, text) ==
    IF df.err # "ok" THEN df ELSE SetCol(df, c, [r \in Rows(df) |-> Str(text)])

\* x.str.split(',').str[0]
before_comma(v) ==
    IF v.k # "str" THEN NaN
    ELSE IF \E i \in 1..Len(v.s) : v.s[i] = ","
         THEN Str(SubSeq(v.s, 1, (CHOOSE i \in 1..Len(v.s) :
                                     v.s[i] = "," /\ \A j \in 1..(i - 1) : v.s[j] # ",") - 1))
         ELSE v

GovNormalize(raw, t_now) ==
    IF raw = <<>> THEN EmptyFrame
    ELSE
    LET d1 == ClosingDateBlock(DataFrame(raw), "any")
        d2 == DaysBlock(d1, t_now)
        d3 == PrefixUrlBlock(d2, GovUrlPrefix)
        d4 == ConstCol(d3, "status", Current)
        d5 == IF d4.err # "ok" \/ "school_type" \notin d4.cols THEN d4
              ELSE SetCol(d4, "employer_name", [r \in Rows(d4) |-> before_comma(r["school_type"])])
        d6 == CopyColBlock(d5, "salary_description", "pay_scale")
    IN  CopyColBlock(d6, "contractTypes", "working_pattern")

RaaNormalize(raw, t_now) ==
    IF raw = <<>> THEN EmptyFrame
    ELSE
    LET d1 == ClosingDateBlock(DataFrame(raw), "dmy_hm")
        d2 == DaysBlock(d1, t_now)
        d3 == PrefixUrlBlock(d2, RaaUrlPrefix)
        d4 == ConstCol(d3, "status", Current)
    IN  IF d4.err = "ok" /\ "contractTypes" \in d4.cols
        THEN ConstCol(d4, "contractTerms", Permanent)
        ELSE d4

\* lambda x: 'Permanent' if 'permanent' in str(x).lower() else
\*           ('Temporary' if 'temporary' in str(x).lower() else 'Not specified')
dunottar_terms(v) ==
    IF v.k = "str" /\ contains(lower(v.s), lower(Permanent)) THEN Str(Permanent)
    ELSE IF v.k = "str" /\ contains(lower(v.s), lower(Temporary)) THEN Str(Temporary)
    ELSE Str(NotSpecified)

DunottarNormalize(raw, t_now) ==
    IF raw = <<>> THEN EmptyFrame
    ELSE
    LET d1 == ClosingDateBlock(DataFrame(raw), "any")
        d2 == DaysBlock(d1, t_now)
        d3 == CopyUrlBlock(d2)
        d4 == ConstCol(d3, "status", Current)
    IN  IF d4.err = "ok" /\ "contractTypes" \in d4.cols
        THEN SetCol(d4, "contractTerms", [r \in Rows(d4) |-> dunottar_terms(r["contractTypes"])])
        ELSE d4

WoldinghamNormalize(raw, t_now) ==
    IF raw = <<>> THEN EmptyFrame
    ELSE
    LET d1 == ClosingDateBlock(DataFrame(raw), "any")
        d2 == DaysBlock(d1, t_now)
        d3 == CopyUrlBlock(d2)
        d4 == ConstCol(d3, "status", Current)
        d5 == ConstCol(d4, "contractTypes", Permanent)
    IN  ConstCol(d5, "contractTerms", Permanent)

\* Sutton High and GDST compute days_to_apply whenever there is a closing_date
ClosingDaysBlock(df, t_now) ==
    IF "closing_date" \notin df.cols THEN df
    ELSE DaysToApply(ClosingDateBlock(df, "any"), t_now)

SuttonHighNormalize(raw, t_now) ==
    IF raw = <<>> THEN EmptyFrame
    ELSE
    LET d1 == ClosingDaysBlock(DataFrame(raw), t_now)
        d2 == PrefixUrlBlock(d1, TesUrlPrefix)
    IN  ConstCol(d2, "status", Current)

GdstNormalize(raw, t_now) ==
    IF raw = <<>> THEN EmptyFrame
    ELSE
    LET d1 == ClosingDaysBlock(DataFrame(raw), t_now)
        d2 == CopyUrlBlock(d1)
    IN  ConstCol(d2, "status", Current)

(***************************************************************************)
(* The sources of main() and standardize_column_names                      *)
(***************************************************************************)
TES == <<"T", "E", "S">>

GOV_UK == <<"G", "O", "V", ".", "U", "K">>

RAA_School == <<"R", "A", "A", " ", "S", "c", "h", "o", "o", "l">>

Dunottar_School == <<"D", "u", "n", "o", "t", "t", "a", "r", " ", "S", "c", "h", "o", "o", "l">>

Woldingham_School == <<"W", "o", "l", "d", "i", "n", "g", "h", "a", "m", " ", "S", "c", "h",
                       "o", "o", "l">>

Sutton_High_School == <<"S", "u", "t", "t", "o", "n", " ", "H", "i", "g", "h", " ", "S", "c",
                        "h", "o", "o", "l">>

GDST == <<"G", "D", "S", "T">>

\* the keys of main's sources dict, in insertion order
SourceOrder == <<TES, GOV_UK, RAA_School, Dunottar_School, Woldingham_School,
                 Sutton_High_School, GDST>>

SourceNames == {SourceOrder[i] : i \in 1..Len(SourceOrder)}

\* source_name.lower().replace(' ', '').replace('.', '')
source_type_of(source_name) == replace_char(replace_char(lower(source_name), " "), ".")

\* a columns= dict that names full_url 'url' and the raw url 'url_'
TesColumns_Chained ==
    [title |-> "title", employer_name |-> "employer_name",
     displayLocation |-> "location", contractTypes |-> "contract_type",
     contractTerms |-> "contract_term", salary_description |-> "salary",
     application_closeDate_formatted |-> "closing_date",
     days_to_apply |-> "days_remaining", shortDescription |-> "description",
     full_url |-> "url", url |-> "url_", source |-> "source"]

\* the columns= dict of the 'tes' branch; the 'raa', 'dunottar', 'woldingham'
\* and 'suttonhigh'/'gdst' branches carry the same dict
TesColumns ==
    [title |-> "title", employer_name |-> "employer_name",
     displayLocation |-> "location", contractTypes |-> "contract_type",
     contractTerms |-> "contract_term", salary_description |-> "salary",
     application_closeDate_formatted |-> "closing_date",
     days_to_apply |-> "days_remaining", shortDescription |-> "description",
     full_url |-> "url_", source |-> "source"]

\* the columns= dict of the 'gov' branch
GovColumns ==
    [title |-> "title", employer_name |-> "employer_name",
     displayLocation |-> "location", working_pattern |-> "contract_type",
     school_type |-> "employer_type", salary_description |-> "salary",
     application_closeDate_formatted |-> "closing_date",
     days_to_apply |-> "days_remaining", full_url |-> "url_", source |-> "source"]

\* df.rename(columns=m): every label that is a key of m becomes m[label]
rename(df, m) ==
    [df EXCEPT !.names = [c \in df.cols |->
                            IF df.names[c] \in DOMAIN m THEN m[df.names[c]] ELSE df.names[c]]]

standardize_column_names(df, source_type) ==
    IF source_type = <<"t", "e", "s">> THEN rename(df, TesColumns)
    ELSE IF source_type = <<"g", "o", "v">> THEN rename(df, GovColumns)
    ELSE IF source_type \in {<<"r", "a", "a">>,
                             <<"d", "u", "n", "o", "t", "t", "a", "r">>,
                             <<"w", "o", "l", "d", "i", "n", "g", "h", "a", "m">>,
                             <<"s", "u", "t", "t", "o", "n", "h", "i", "g", "h">>,
                             <<"g", "d", "s", "t">>}
         THEN rename(df, TesColumns)
    ELSE df

\* self.normalize of the source object stored under source_name
normalize(source_name, raw, t_now) ==
    CASE source_name = TES                -> TesNormalize(raw, t_now)
      [] source_name = GOV_UK             -> GovNormalize(raw, t_now)
      [] source_name = RAA_School         -> RaaNormalize(raw, t_now)
      [] source_name = Dunottar_School    -> DunottarNormalize(raw, t_now)
      [] source_name = Woldingham_School  -> WoldinghamNormalize(raw, t_now)
      [] source_name = Sutton_High_School -> SuttonHighNormalize(raw, t_now)
      [] source_name = GDST               -> GdstNormalize(raw, t_now)

\* JobSource.get_jobs, given what self.search() returned
get_jobs(source_name, raw, t_now) ==
    filter_design_tech_jobs(normalize(source_name, raw, t_now))

\* the columns of df that carry the label l
Labelled(df, l) == {c \in df.cols : df.names[c] = l}

(***************************************************************************)
(* The raw records the extractors can return (bounded)                     *)
(***************************************************************************)
\* the longest list search() returns in the pipeline specification
MaxBatch == 2

\* the hour at which the run takes place
NowHour == 240

\* how far ahead the ordinary closing date lies, in hours
CloseAhead == 30

With(r, k, v) == [x \in DOMAIN r \cup {k} |-> IF x = k THEN v ELSE r[x]]

Without(r, ks) == [x \in DOMAIN r \ ks |-> r[x]]

Design == <<"D", "e", "s", "i", "g", "n">>

Maths == <<"M", "a", "t", "h", "s">>

DAndT == <<"D", " ", "&", "T">>

JustDT == <<"D", "T">>

RelativeUrl == <<"/", "j">>

AbsoluteUrl == <<"h", "t", "t", "p", ":", "/", "/", "x">>

Leeds == <<"L", "e", "e", "d", "s">>

FullTime == <<"F", "u", "l", "l", " ", "t", "i", "m", "e">>

PermanentBasis == <<"P", "e", "r", "m", "a", "n", "e", "n", "t", " ", "b", "a", "s", "i", "s">>

AcademyType == <<"A", "c", "a", "d", "e", "m", "y", ",", " ", "1", "1", "-", "1", "8">>

PayM1 == <<"M", "1">>

CroydonHigh == <<"C", "r", "o", "y", "d", "o", "n", " ", "H", "i", "g", "h">>

WoldinghamUrl == <<"h", "t", "t", "p", "s", ":", "/", "/", "w", "w", "w", ".", "w", "o", "l",
                   "d", "i", "n", "g", "h", "a", "m", "s", "c", "h", "o", "o", "l", ".",
                   "c", "o", ".", "u", "k", "/", "v", "a", "c", "a", "n", "c", "i", "e",
                   "s", ".", "h", "t", "m", "l">>

WoldinghamSurrey == <<"W", "o", "l", "d", "i", "n", "g", "h", "a", "m", ",", " ", "S", "u",
                      "r", "r", "e", "y">>

SuttonTown == <<"S", "u", "t", "t", "o", "n">>

WoldinghamTitles == {<<"H", "o", "u", "s", "e", "m", "i", "s", "t", "r", "e", "s", "s">>,
                     <<"C", "h", "a", "p", "l", "a", "i", "n">>,
                     <<"H", "e", "a", "d", " ", "o", "f", " ", "F", "r", "e", "n", "c", "h">>}

\* r with every choice of title and shortDescription among the texts, absent included
TextVariants(r, titles, descs) ==
    {r} \cup {With(r, "title", Str(t)) : t \in titles}
        \cup {With(r, "shortDescription", Str(d)) : d \in descs}
        \cup {With(With(r, "title", Str(t)), "shortDescription", Str(d)) :
                 t \in titles, d \in descs}

\* TesJobSource.extract_job_data copies each key the job has
TesBase ==
    [displayLocation |-> Str(Leeds), contractTerms |-> Str(Permanent),
     contractTypes |-> Str(FullTime), employer_name |-> Str(CroydonHigh),
     salary_description |-> Str(PayM1),
     advert_startDate |-> DateText("iso_z", NowHour - 1),
     application_closeDate |-> DateText("iso_z", NowHour + CloseAhead),
     url |-> Str(RelativeUrl), source |-> Str(TES)]

TesGood == With(TesBase, "title", Str(Design))

TesRaw ==
    TextVariants(TesBase, {Design, Maths}, {DAndT, JustDT}) \cup
    { Without(TesGood, {"advert_startDate"}),
      Without(TesGood, {"application_closeDate"}),
      Without(TesGood, {"url"}),
      Without(TesGood, {"displayLocation", "contractTerms", "contractTypes",
                        "employer_name", "salary_description"}),
      With(TesGood, "application_closeDate", DateText("junk", 0)),
      With(TesGood, "application_closeDate", DateText("iso", NowHour + CloseAhead)),
      With(TesGood, "application_closeDate", None),
      With(With(TesGood, "advert_startDate",
                DateText("iso_z", NowHour - RecentDays * HoursPerDay - 1)),
           "application_closeDate", DateText("iso_z", NowHour)),
      With(With(TesGood, "advert_startDate",
                DateText("iso_z", NowHour - RecentDays * HoursPerDay)),
           "application_closeDate", DateText("iso_z", NowHour - HoursPerDay)),
      With(TesGood, "application_closeDate", DateText("iso_z", NowHour - 1)) }

\* GovJobSource._extract_jobs_from_soup: title and url come from the same
\* element, the other keys from the summary list; there is no shortDescription
GovBase ==
    [displayLocation |-> Str(Leeds),
     closing_date |-> DateText("d_month_y", NowHour + CloseAhead),
     school_type |-> Str(AcademyType), pay_scale |-> Str(PayM1),
     working_pattern |-> Str(FullTime), source |-> Str(GOV_UK)]

GovTitled(r, t, u) == With(With(r, "title", Str(t)), "url", u)

GovGood == GovTitled(GovBase, Design, Str(RelativeUrl))

GovRaw ==
    { GovBase, GovGood,
      GovTitled(GovBase, Maths, Str(RelativeUrl)),
      GovTitled(GovBase, DAndT, Str(AbsoluteUrl)),
      GovTitled(GovBase, Design, None),
      Without(GovGood, {"closing_date"}),
      Without(GovGood, {"school_type", "pay_scale", "working_pattern", "displayLocation"}),
      With(GovGood, "closing_date", DateText("junk", 0)),
      With(GovGood, "closing_date", DateText("d_month_y", NowHour - 1)) }

\* RaaJobSource._extract_jobs_from_soup keeps the cards that have a title
RaaBase ==
    [title |-> Str(Design), employer_name |-> Str(CroydonHigh),
     displayLocation |-> Str(Leeds), salary_description |-> Str(PayM1),
     contractTypes |-> Str(FullTime),
     closing_date |-> DateText("dmy_hm", NowHour + CloseAhead),
     url |-> Str(RelativeUrl), source |-> Str(RAA_School)]

RaaRaw ==
    {r \in TextVariants(Without(RaaBase, {"title"}), {Design, Maths}, {DAndT, JustDT}) :
        "title" \in DOMAIN r} \cup
    { Without(RaaBase, {"closing_date"}),
      Without(RaaBase, {"url"}),
      Without(RaaBase, {"contractTypes", "employer_name", "displayLocation",
                        "salary_description"}),
      With(RaaBase, "url", Str(AbsoluteUrl)),
      With(RaaBase, "closing_date", DateText("d_month_y", NowHour + CloseAhead)),
      With(RaaBase, "closing_date", DateText("junk", 0)),
      With(RaaBase, "closing_date", DateText("dmy_hm", NowHour - 1)) }

\* DunottarJobSource._extract_jobs_from_soup: url and employer_name always set
DunottarBase ==
    [title |-> Str(Design), url |-> Str(AbsoluteUrl),
     closing_date |-> DateText("d_month_y", NowHour + CloseAhead),
     salary_description |-> Str(PayM1), displayLocation |-> Str(Leeds),
     contractTypes |-> Str(PermanentBasis),
     employer_name |-> Str(Dunottar_School), source |-> Str(Dunottar_School)]

DunottarRaw ==
    {r \in TextVariants(Without(DunottarBase, {"title"}), {Design, Maths}, {DAndT, JustDT}) :
        "title" \in DOMAIN r} \cup
    { Without(DunottarBase, {"closing_date"}),
      Without(DunottarBase, {"contractTypes", "salary_description", "displayLocation"}),
      With(DunottarBase, "contractTypes", Str(FullTime)),
      With(DunottarBase, "url", Str(<<>>)),
      With(DunottarBase, "closing_date", DateText("junk", 0)) }

\* WoldinghamJobSource._extract_jobs_from_soup: three fixed titles
WoldinghamBase ==
    [employer_name |-> Str(Woldingham_School), displayLocation |-> Str(WoldinghamSurrey),
     source |-> Str(Woldingham_School), url |-> Str(WoldinghamUrl)]

WoldinghamRaw ==
    UNION { LET r == With(WoldinghamBase, "title", Str(t))
                f == With(With(r, "salary_description", Str(PayM1)),
                          "start_date", DateText("d_month_y", NowHour + CloseAhead))
            IN  { r, f,
                  With(f, "closing_date", DateText("d_month_y", NowHour + CloseAhead)),
                  With(f, "closing_date", DateText("junk", 0)) }
            : t \in WoldinghamTitles }

\* SuttonHighJobSource._extract_jobs_from_soup: one record per title element
SuttonBase ==
    [title |-> Str(Design), url |-> Str(RelativeUrl),
     closing_date |-> DateText("d_month_y", NowHour + CloseAhead),
     salary_description |-> Str(PayM1), employer_name |-> Str(Sutton_High_School),
     displayLocation |-> Str(SuttonTown), source |-> Str(Sutton_High_School)]

SuttonRaw ==
    { SuttonBase,
      With(SuttonBase, "title", Str(Maths)),
      With(SuttonBase, "title", Str(DAndT)),
      With(SuttonBase, "url", Str(AbsoluteUrl)),
      Without(SuttonBase, {"url"}),
      Without(SuttonBase, {"closing_date"}),
      Without(SuttonBase, {"salary_description"}),
      With(SuttonBase, "closing_date", DateText("junk", 0)),
      With(SuttonBase, "closing_date", DateText("d_month_y", NowHour - 1)) }

\* GdstJobSource._extract_jobs_from_soup: a title, and an employer_name that
\* names Croydon or Sutton
GdstBase ==
    [title |-> Str(Design), employer_name |-> Str(CroydonHigh),
     closing_date |-> DateText("d_month_y", NowHour + CloseAhead),
     url |-> Str(AbsoluteUrl), source |-> Str(GDST)]

GdstRaw ==
    { GdstBase,
      With(GdstBase, "title", Str(Maths)),
      With(GdstBase, "title", Str(DAndT)),
      With(GdstBase, "employer_name", Str(Sutton_High_School)),
      With(GdstBase, "url", None),
      Without(GdstBase, {"url"}),
      Without(GdstBase, {"closing_date"}),
      With(GdstBase, "closing_date", DateText("junk", 0)),
      With(GdstBase, "closing_date", DateText("d_month_y", NowHour - 1)) }

\* the raw records search() of a source can return
RawRecords(source_name) ==
    CASE source_name = TES                -> TesRaw
      [] source_name = GOV_UK             -> GovRaw
      [] source_name = RAA_School         -> RaaRaw
      [] source_name = Dunottar_School    -> DunottarRaw
      [] source_name = Woldingham_School  -> WoldinghamRaw
      [] source_name = Sutton_High_School -> SuttonRaw
      [] source_name = GDST               -> GdstRaw

\* the lists of at most n records over S
SeqsUpTo(S, n) == UNION {[1..m -> S] : m \in 0..n}

(***************************************************************************)
(* One source through the body of main's loop: get_jobs() stage by stage,  *)
(* then standardize_column_names, or the except branch.                    *)
(***************************************************************************)
\* a frame not computed yet
NoFrame == [err |-> "unset", cols |-> {}, names |-> <<>>, rows |-> <<>>]

\* main() before the loop is over: nothing rendered, sent, written or returned
NoMail ==
    [send_email |-> FALSE, recipients |-> <<>>, email_html |-> <<>>, subject |-> <<>>,
     attempts |-> 0, error |-> "none", file |-> <<>>, returned |-> "nothing"]

PipeInit ==
    /\ src \in SourceNames
    /\ raw_data \in SeqsUpTo(RawRecords(src), MaxBatch)
    /\ now = NowHour
    /\ pc = "searched"
    /\ norm = NoFrame /\ jobs_df = NoFrame /\ std_df = NoFrame
    /\ web = <<>> /\ max_pages = 0 /\ page = 0 /\ fetched = <<>>
    /\ all_jobs = <<>> /\ total_jobs = 0 /\ todo = <<>> /\ mail = NoMail

\* self.normalize(raw_data)
PipeNormalize ==
    /\ pc = "searched"
    /\ norm' = normalize(src, raw_data, now)
    /\ pc' = IF norm'.err = "ok" THEN "normalized" ELSE "normalize_raised"
    /\ UNCHANGED <<src, now, raw_data, jobs_df, std_df, searchVars, mainVars>>

\* self.filter_design_tech_jobs(...)
PipeFilter ==
    /\ pc = "normalized"
    /\ jobs_df' = filter_design_tech_jobs(norm)
    /\ pc' = IF jobs_df'.err = "ok" THEN "filtered" ELSE "filter_raised"
    /\ UNCHANGED <<src, now, raw_data, norm, std_df, searchVars, mainVars>>

\* std_df = standardize_column_names(jobs_df, ...); all_jobs[source_name] = std_df
PipeStandardize ==
    /\ pc = "filtered"
    /\ std_df' = standardize_column_names(jobs_df, source_type_of(src))
    /\ pc' = "stored"
    /\ UNCHANGED <<src, now, raw_data, norm, jobs_df, searchVars, mainVars>>

\* except Exception: all_jobs[source_name] = pd.DataFrame()
PipeExcept ==
    /\ pc \in {"normalize_raised", "filter_raised"}
    /\ std_df' = EmptyFrame
    /\ pc' = "stored_empty"
    /\ UNCHANGED <<src, now, raw_data, norm, jobs_df, searchVars, mainVars>>

PipeNext == PipeNormalize \/ PipeFilter \/ PipeStandardize \/ PipeExcept

SpecPipe == PipeInit /\ [][PipeNext]_vars

(***************************************************************************)
(* The paginated searches: TesJobSource.search and RaaJobSource.search     *)
(***************************************************************************)
\* the pages the site holds
MaxWebPages == 3

\* the largest max_pages main() is called with
MaxPagesArg == 3

\* the number of jobs on a page that is not full
ShortPage == 5

\* if len(page_jobs) < 20: break
FullPage == 20

\* def search(self, max_pages=2): get_jobs() calls self.search() without it
TesSearchMaxPages == 2

\* 'RAA School': RaaJobSource(max_pages=3)
RaaMaxPages == 3

PageSizes == {0, ShortPage, FullPage - 1, FullPage}

\* What a GET of a TES search page can give: no answer, a page without the
\* __NEXT_DATA__ script, a script that is not JSON, JSON where a key of the
\* path to the data is missing or 'queries' is empty, JSON where a step of
\* the path holds null so that the next step cannot be taken, data without
\* the 'jobs' key, or data with n jobs.
TesPages ==
    {[kind |-> k, n |-> 0] :
        k \in {"transport_error", "no_script", "bad_json", "no_path", "null_step",
               "no_jobs_key"}}
    \cup {[kind |-> "data", n |-> n] : n \in PageSizes}

\* TesJobSource.extract_page_data: "raise", "None" or "data"; the except
\* clause names KeyError and IndexError, and None['pageProps'] is a TypeError
extract_page_data(content) ==
    IF content.kind \in {"transport_error", "bad_json", "null_step"} THEN "raise"
    ELSE IF content.kind \in {"no_script", "no_path"} THEN "None"
    ELSE "data"

\* if not page_data or 'jobs' not in page_data or not page_data['jobs']: break
TesNoJobs(content) ==
    \/ extract_page_data(content) = "None"
    \/ content.kind = "no_jobs_key"
    \/ content.n = 0

\* [self.extract_job_data(job) for job in page_data['jobs']]: the jobs of
\* page p, each known by its page and its place on it
PageJobs(p, n) == [i \in 1..n |-> <<p, i>>]

\* a search that leaves out every other page
NextPage_Skip(p) == p + 2

\* range(1, max_pages + 1) hands the loop the next page number
NextPage(p) == p + 1

\* one pass of the loop `for page in range(1, max_pages + 1)` of TesJobSource.search
TesSearchStep ==
    /\ pc = "fetch" /\ src = TES
    /\ fetched' = Append(fetched, page)
    /\ IF extract_page_data(web[page]) = "raise"
       THEN pc' = "raised" /\ UNCHANGED <<all_jobs, page>>
       ELSE IF TesNoJobs(web[page])
       THEN pc' = "returned" /\ UNCHANGED <<all_jobs, page>>
       ELSE /\ all_jobs' = all_jobs \o PageJobs(page, web[page].n)
            /\ IF web[page].n < FullPage \/ page >= TesSearchMaxPages
               THEN pc' = "returned" /\ UNCHANGED page
               ELSE pc' = "fetch" /\ page' = NextPage(page)
    /\ UNCHANGED <<src, now, pipeVars, web, max_pages, total_jobs, todo, mail>>

\* What a GET of an RAA vacancies page can give: no answer, the "No results
\* found" marker, or n cards with a title and perhaps the #pagescount input,
\* whose value is a number or not.
RaaPages ==
    {[kind |-> k, n |-> 0, pagescount |-> "absent", value |-> 0] :
        k \in {"transport_error", "no_results"}}
    \cup {[kind |-> "cards", n |-> 0, pagescount |-> "absent", value |-> 0]}
    \cup {[kind |-> "cards", n |-> n, pagescount |-> "absent", value |-> 0] :
             n \in {ShortPage, FullPage}}
    \cup {[kind |-> "cards", n |-> n, pagescount |-> "text", value |-> 0] :
             n \in {ShortPage, FullPage}}
    \cup {[kind |-> "cards", n |-> n, pagescount |-> "number", value |-> v] :
             n \in {ShortPage, FullPage}, v \in 1..MaxWebPages}

\* if no_results_text and "No results found" in no_results_text.text: break
RaaNoResults(content) == content.kind = "no_results"

\* a search that goes on past a page without jobs
RaaNoJobs_Never(content) == FALSE

\* if not jobs: break
RaaNoJobs(content) == content.n = 0

\* if pagescount and page >= int(pagescount.get('value', '1')): break
RaaLastPage(content, p) == content.pagescount = "number" /\ p >= content.value

\* one pass of the loop `for page in range(1, self.max_pages + 1)` of RaaJobSource.search
RaaSearchStep ==
    /\ pc = "fetch" /\ src = RAA_School
    /\ fetched' = Append(fetched, page)
    /\ IF web[page].kind = "transport_error"
       THEN pc' = "raised" /\ UNCHANGED <<all_jobs, page>>
       ELSE IF RaaNoResults(web[page]) \/ RaaNoJobs(web[page])
       THEN pc' = "returned" /\ UNCHANGED <<all_jobs, page>>
       ELSE /\ all_jobs' = all_jobs \o PageJobs(page, web[page].n)
            /\ IF web[page].pagescount = "text"
               THEN pc' = "raised" /\ UNCHANGED page
               ELSE IF RaaLastPage(web[page], page) \/ page >= max_pages
               THEN pc' = "returned" /\ UNCHANGED page
               ELSE pc' = "fetch" /\ page' = NextPage(page)
    /\ UNCHANGED <<src, now, pipeVars, web, max_pages, total_jobs, todo, mail>>

\* the source objects main() builds, at the first line of search()
SearchInit ==
    /\ \/ src = TES /\ web \in [1..MaxWebPages -> TesPages] /\ max_pages \in 1..MaxPagesArg
       \/ src = RAA_School /\ web \in [1..MaxWebPages -> RaaPages] /\ max_pages = RaaMaxPages
    /\ pc = "fetch" /\ page = 1 /\ fetched = <<>> /\ all_jobs = <<>>
    /\ now = NowHour
    /\ raw_data = <<>> /\ norm = NoFrame /\ jobs_df = NoFrame /\ std_df = NoFrame
    /\ total_jobs = 0 /\ todo = <<>> /\ mail = NoMail

SearchNext == TesSearchStep \/ RaaSearchStep

SpecSearch == SearchInit /\ [][SearchNext]_vars

(***************************************************************************)
(* The extractors: TesJobSource.extract_job_data and                       *)
(* GdstJobSource._extract_jobs_from_soup                                   *)
(***************************************************************************)
\* the most listings on a page in the extraction specification
MaxListings == 2

\* for k in ['id', 'title', 'promoted', 'shortDescription', 'displayLocation', 'quickApply']
TesScalarKeys == {"id", "title", "promoted", "shortDescription", "displayLocation",
                  "quickApply"}

\* ', '.join(l)
RECURSIVE join(_)
join(l) ==
    IF l = <<>> THEN <<>>
    ELSE IF Len(l) = 1 THEN l[1]
    ELSE l[1] \o <<",", " ">> \o join(Tail(l))

\* d.get(k) is truthy: the key is there and its text is not empty
Truthy(d, k) == k \in DOMAIN d /\ d[k].k = "str" /\ d[k].s # <<>>

\* the keys extract_job_data sets, given the keys of the job
TesResultKeys(job) ==
    LET D == DOMAIN job
    IN  (D \cap TesScalarKeys)
        \cup (D \cap {"contractTerms", "contractTypes"})
        \cup (IF "employer" \in D /\ "name" \in DOMAIN job["employer"]
              THEN {"employer_name"} ELSE {})
        \cup (IF "salary" \in D /\ Truthy(job["salary"], "description")
              THEN {"salary_description"} ELSE {})
        \cup (IF "salary" \in D /\ Truthy(job["salary"], "range")
              THEN {"salary_range"} ELSE {})
        \cup (IF "advert" \in D /\ "startDate" \in DOMAIN job["advert"]
              THEN {"advert_startDate"} ELSE {})
        \cup (IF "advert" \in D /\ "endDate" \in DOMAIN job["advert"]
              THEN {"advert_endDate"} ELSE {})
        \cup (IF "application" \in D /\ "closeDate" \in DOMAIN job["application"]
              THEN {"application_closeDate"} ELSE {})
        \cup (IF "canonicalUrl" \in D THEN {"url"} ELSE {})
        \cup {"source"}

extract_job_data(job) ==
    [x \in TesResultKeys(job) |->
        CASE x \in TesScalarKeys              -> job[x]
          [] x \in {"contractTerms", "contractTypes"} -> Str(join(job[x]))
          [] x = "employer_name"             -> job["employer"]["name"]
          [] x = "salary_description"        -> job["salary"]["description"]
          [] x = "salary_range"              -> job["salary"]["range"]
          [] x = "advert_startDate"          -> job["advert"]["startDate"]
          [] x = "advert_endDate"            -> job["advert"]["endDate"]
          [] x = "application_closeDate"     -> job["application"]["closeDate"]
          [] x = "url"                       -> job["canonicalUrl"]
          [] x = "source"                    -> Str(TES)]

\* a job of the embedded JSON with every key the extractor looks for
TesJobFull ==
    [id |-> Str(<<"7">>), title |-> Str(Design), shortDescription |-> Str(DAndT),
     displayLocation |-> Str(Leeds),
     contractTerms |-> <<Permanent>>, contractTypes |-> <<FullTime, Permanent>>,
     employer |-> [name |-> Str(CroydonHigh), id |-> Str(<<"3">>)],
     salary |-> [description |-> Str(PayM1), range |-> Str(<<>>)],
     advert |-> [startDate |-> DateText("iso_z", NowHour - 1),
                 endDate |-> DateText("iso_z", NowHour + CloseAhead)],
     application |-> [closeDate |-> DateText("iso_z", NowHour + CloseAhead)],
     canonicalUrl |-> Str(RelativeUrl)]

\* the jobs a TES page can list: the full one, and the full one without a key
TesJobs ==
    {TesJobFull}
    \cup {Without(TesJobFull, {x}) : x \in DOMAIN TesJobFull}
    \cup { With(TesJobFull, "employer", [id |-> Str(<<"3">>)]),
           With(TesJobFull, "salary", [range |-> Str(PayM1)]),
           With(TesJobFull, "advert", [endDate |-> DateText("iso_z", NowHour)]),
           With(TesJobFull, "application", [quickApply |-> Str(<<"1">>)]) }

\* the element an item of the page lacks
Absent == [k |-> "absent", s |-> <<>>, n |-> 0]

\* the text "Closing date: <date>" of a span
ClosingSpan(fmt, t) == [k |-> "closing_span", s |-> <<fmt>>, n |-> t]

\* A .cell of the GDST page: its h2 title (Absent, or its stripped text), the
\* texts of its spans, and the href of its a.media-block__button (Absent when
\* there is no link).
GdstCells ==
    [title : {Absent, Str(Design), Str(<<>>)},
     spans : { <<>>, <<Str(Leeds)>>,
               <<Str(Leeds), Str(CroydonHigh)>>,
               <<Str(Leeds), Str(Dunottar_School)>>,
               <<Str(Leeds), Str(Sutton_High_School), Str(Leeds)>>,
               <<Str(Leeds), Str(CroydonHigh),
                 ClosingSpan("d_month_y", NowHour + CloseAhead)>> },
     link  : {Absent, Str(AbsoluteUrl)}]

\* the keys of the job built from one cell
GdstJobKeys(item) ==
    (IF item.title # Absent THEN {"title"} ELSE {})
    \cup (IF Len(item.spans) > 1 THEN {"employer_name"} ELSE {})
    \cup (IF Len(item.spans) > 2 /\ item.spans[3].k = "closing_span"
          THEN {"closing_date"} ELSE {})
    \cup (IF item.link # Absent THEN {"url"} ELSE {})
    \cup {"source"}

\* the job dict built from one cell (lines 586-599)
GdstJob(item) ==
    [x \in GdstJobKeys(item) |->
        CASE x = "title"         -> item.title
          [] x = "employer_name" -> item.spans[2]
          [] x = "closing_date"  -> DateText(item.spans[3].s[1], item.spans[3].n)
          [] x = "url"           -> item.link
          [] x = "source"        -> Str(GDST)]

\* "croydon" in j['employer_name'].lower() or "sutton" in j['employer_name'].lower()
GdstWanted(j) ==
    \/ contains(lower(j["employer_name"].s), <<"c", "r", "o", "y", "d", "o", "n">>)
    \/ contains(lower(j["employer_name"].s), <<"s", "u", "t", "t", "o", "n">>)

\* GdstJobSource._extract_jobs_from_soup: [err, jobs]; j['employer_name'] of a
\* job without the key raises KeyError
GdstExtract(soup) ==
    IF ~soup.container THEN [err |-> "ok", jobs |-> <<>>]
    ELSE
    LET jobs == SelectSeq([i \in 1..Len(soup.cells) |-> GdstJob(soup.cells[i])],
                          LAMBDA j : Truthy(j, "title"))
    IN  IF \E i \in 1..Len(jobs) : "employer_name" \notin DOMAIN jobs[i]
        THEN [err |-> "KeyError", jobs |-> <<>>]
        ELSE [err |-> "ok", jobs |-> SelectSeq(jobs, GdstWanted)]

\* the page in hand: the data of a TES page, or the soup of the GDST page
ExtractInit ==
    /\ \/ src = TES /\ web \in [kind : {"data"}, jobs : SeqsUpTo(TesJobs, MaxListings)]
       \/ src = GDST /\ web \in [container : BOOLEAN, cells : SeqsUpTo(GdstCells, MaxListings)]
    /\ pc = "extracting"
    /\ raw_data = <<>>
    /\ now = NowHour
    /\ norm = NoFrame /\ jobs_df = NoFrame /\ std_df = NoFrame
    /\ max_pages = 0 /\ page = 0 /\ fetched = <<>>
    /\ all_jobs = <<>> /\ total_jobs = 0 /\ todo = <<>> /\ mail = NoMail

\* page_jobs = [self.extract_job_data(job) for job in page_data['jobs']]
TesExtract ==
    /\ pc = "extracting" /\ src = TES
    /\ raw_data' = [i \in 1..Len(web.jobs) |-> extract_job_data(web.jobs[i])]
    /\ pc' = "extracted"
    /\ UNCHANGED <<src, now, norm, jobs_df, std_df, searchVars, mainVars>>

\* return self._extract_jobs_from_soup(soup)
GdstExtractStep ==
    /\ pc = "extracting" /\ src = GDST
    /\ raw_data' = GdstExtract(web).jobs
    /\ pc' = IF GdstExtract(web).err = "ok" THEN "extracted" ELSE "extract_raised"
    /\ UNCHANGED <<src, now, norm, jobs_df, std_df, searchVars, mainVars>>

ExtractNext == TesExtract \/ GdstExtractStep

SpecExtract == ExtractInit /\ [][ExtractNext]_vars

(***************************************************************************)
(* main(): the loop over the sources                                       *)
(***************************************************************************)
\* the most raw records the seven sites hold together in one run
MaxWebListings == 2

\* Of each source, a record the filter keeps, one it drops and one that
\* normalize() or the filter cannot handle.
MainRecords(source_name) ==
    CASE source_name = TES ->
             {TesGood, With(TesBase, "title", Str(Maths)),
              Without(TesGood, {"application_closeDate"})}
      [] source_name = GOV_UK ->
             {GovGood, GovTitled(GovBase, Maths, Str(RelativeUrl)), GovBase}
      [] source_name = RAA_School ->
             {RaaBase, With(RaaBase, "title", Str(Maths)), Without(RaaBase, {"url"})}
      [] source_name = Dunottar_School ->
             {DunottarBase, With(DunottarBase, "title", Str(Maths)),
              Without(DunottarBase, {"closing_date"})}
      [] source_name = Woldingham_School ->
             {With(WoldinghamBase, "title", Str(t)) : t \in WoldinghamTitles}
      [] source_name = Sutton_High_School ->
             {SuttonBase, With(SuttonBase, "title", Str(Maths)),
              Without(SuttonBase, {"url"})}
      [] source_name = GDST ->
             {GdstBase, With(GdstBase, "title", Str(Maths)),
              With(GdstBase, "closing_date", DateText("junk", 0))}

\* What self.search() of a source meets: the request fails, or the site
\* lists some records.
Outcomes(source_name, room) ==
    {[err |-> "TransportError", raw |-> <<>>]}
    \cup {[err |-> "ok", raw |-> b] : b \in SeqsUpTo(MainRecords(source_name), room)}

\* the raw records met so far
RECURSIVE ListingsIn(_, _)
ListingsIn(w, names) ==
    IF names = <<>> THEN 0
    ELSE (IF Head(names) \in DOMAIN w THEN Len(w[Head(names)].raw) ELSE 0)
         + ListingsIn(w, Tail(names))

\* jobs_df = source.get_jobs(), given what the site answered
GetJobsOf(source_name, outcome, t_now) ==
    IF outcome.err # "ok" THEN Raise(outcome.err)
    ELSE get_jobs(source_name, outcome.raw, t_now)

\* d[k] = v
Put(d, k, v) == [x \in DOMAIN d \cup {k} |-> IF x = k THEN v ELSE d[x]]

\* a count of the sources that answered instead of their records
AddCount_PerSource(total, df) == total + 1

\* job_count = len(std_df); total_jobs += job_count
AddCount(total, df) == total + FrameLen(df)

\* the try body: all_jobs[source_name] = std_df
StoreJobs(d, source_name, jobs) ==
    Put(d, source_name, standardize_column_names(jobs, source_type_of(source_name)))

\* an except body that starts the dict afresh
StoreFallback_Reset(d, source_name) == Put(<<>>, source_name, EmptyFrame)

\* the except body: all_jobs[source_name] = pd.DataFrame()
StoreFallback(d, source_name) == Put(d, source_name, EmptyFrame)

Init ==
    /\ pc = "loop"
    /\ todo = SourceOrder
    /\ all_jobs = <<>> /\ total_jobs = 0 /\ mail = NoMail
    /\ web = <<>>
    /\ now = NowHour
    /\ src = TES
    /\ raw_data = <<>> /\ norm = NoFrame /\ jobs_df = NoFrame /\ std_df = NoFrame
    /\ max_pages = TesSearchMaxPages /\ page = 0 /\ fetched = <<>>

\* one pass of `for source_name, source in sources.items()`
MainStep ==
    /\ pc = "loop" /\ todo # <<>>
    /\ src' = Head(todo)
    /\ \E outcome \in Outcomes(Head(todo), MaxWebListings - ListingsIn(web, SourceOrder)) :
          LET jobs == GetJobsOf(Head(todo), outcome, now)
          IN  /\ web' = Put(web, Head(todo), outcome)
              /\ IF jobs.err = "ok"
                 THEN /\ all_jobs' = StoreJobs(all_jobs, Head(todo), jobs)
                      /\ total_jobs' = AddCount(total_jobs, all_jobs'[Head(todo)])
                 ELSE /\ all_jobs' = StoreFallback(all_jobs, Head(todo))
                      /\ UNCHANGED total_jobs
    /\ todo' = Tail(todo)
    /\ pc' = IF Tail(todo) = <<>> THEN "looped" ELSE "loop"
    /\ UNCHANGED <<now, pipeVars, max_pages, page, fetched, mail>>

(***************************************************************************)
(* main(): rendering and delivery, lines 906-948                           *)
(***************************************************************************)
\* generate_master_email_content(all_jobs): the document, known here by the
\* sources it lists, in the order of the dict, and the count of each
generate_master_email_content(dfs_dict) ==
    [i \in 1..Len(SourceOrder) |-> <<SourceOrder[i], FrameLen(dfs_dict[SourceOrder[i]])>>]

\* to_emails or os.environ.get("EMAIL_RECIPIENTS", "").split(","): the one
\* empty string of an unset variable, or an address
RecipientLists == {<<"">>, <<"dt@example.org">>}

\* subject = f"Design Technology Teaching Jobs - {total_jobs} positions found"
Subject(total) == <<"Design Technology Teaching Jobs - ", total, " positions found">>

\* a test that sends whenever send_email is set
ShouldSend_Always(send_email, total) == send_email

\* if send_email and total_jobs > 0
ShouldSend(send_email, total) == send_email /\ total > 0

\* if not recipients or recipients == [""]
NoRecipientsGiven(recipients) == recipients = <<>> \/ recipients = <<"">>

\* send_email_to_recipients: ValueError when GMAIL_USER or GMAIL_PASS is not
\* set, whatever the SMTP session raises, or True
send_email_to_recipients(credentials, smtp) ==
    IF credentials = "unset" THEN "ValueError"
    ELSE IF smtp = "fails" THEN "SMTPException"
    ELSE "True"

\* an except body that only prints the error
OnSendError_PrintOnly(m) == m

\* the except body of the delivery: the document is written to job_listings.html
OnSendError(m) == [m EXCEPT !.file = m.email_html]

\* email_html = generate_master_email_content(all_jobs), with the send_email
\* main() was called with
Render ==
    /\ pc = "looped"
    /\ \E send_email \in BOOLEAN :
          mail' = [mail EXCEPT !.send_email = send_email,
                               !.email_html = generate_master_email_content(all_jobs)]
    /\ pc' = "rendered"
    /\ UNCHANGED <<src, now, pipeVars, searchVars, all_jobs, total_jobs, todo>>

\* the else branch: the document is written to job_listings.html
SaveToFile ==
    /\ pc = "rendered"
    /\ ~ShouldSend(mail.send_email, total_jobs)
    /\ mail' = [mail EXCEPT !.file = mail.email_html, !.returned = "all_jobs"]
    /\ pc' = "done"
    /\ UNCHANGED <<src, now, pipeVars, searchVars, all_jobs, total_jobs, todo>>

\* recipients = to_emails or os.environ.get("EMAIL_RECIPIENTS", "").split(",")
\* gives no recipient: the document is written to the file and main()
\* returns None
NoRecipients ==
    /\ pc = "rendered"
    /\ ShouldSend(mail.send_email, total_jobs)
    /\ \E recipients \in RecipientLists :
          /\ NoRecipientsGiven(recipients)
          /\ mail' = [mail EXCEPT !.recipients = recipients,
                                  !.file = mail.email_html, !.returned = "None"]
    /\ pc' = "done"
    /\ UNCHANGED <<src, now, pipeVars, searchVars, all_jobs, total_jobs, todo>>

\* try: send_email_to_recipients(...)
Send ==
    /\ pc = "rendered"
    /\ ShouldSend(mail.send_email, total_jobs)
    /\ \E recipients \in RecipientLists, credentials \in {"set", "unset"},
          smtp \in {"works", "fails"} :
          LET outcome == send_email_to_recipients(credentials, smtp)
              m       == [mail EXCEPT !.recipients = recipients,
                                      !.subject = Subject(total_jobs),
                                      !.attempts = @ + 1]
          IN  /\ ~NoRecipientsGiven(recipients)
              /\ IF outcome = "True"
                 THEN /\ mail' = [m EXCEPT !.returned = "all_jobs"]
                      /\ pc' = "done"
                 ELSE /\ mail' = [m EXCEPT !.error = outcome]
                      /\ pc' = "send_raised"
    /\ UNCHANGED <<src, now, pipeVars, searchVars, all_jobs, total_jobs, todo>>

\* except Exception: the fallback, then return all_jobs
SendExcept ==
    /\ pc = "send_raised"
    /\ mail' = [OnSendError(mail) EXCEPT !.returned = "all_jobs"]
    /\ pc' = "done"
    /\ UNCHANGED <<src, now, pipeVars, searchVars, all_jobs, total_jobs, todo>>

Next == MainStep \/ Render \/ SaveToFile \/ NoRecipients \/ Send \/ SendExcept

Spec == Init /\ [][Next]_vars

(***************************************************************************)
(* Properties                                                              *)
(***************************************************************************)
\* the entry main's loop owes a source, given what its site answered
ExpectedEntry(source_name) ==
    LET jobs == GetJobsOf(source_name, web[source_name], now)
    IN  IF jobs.err # "ok" THEN EmptyFrame
        ELSE standardize_column_names(jobs, source_type_of(source_name))

\* the sources the loop has not reached yet
Pending == {todo[i] : i \in 1..Len(todo)}

\* C1: whichever sources fail, the loop goes through all seven; a source whose
\* get_jobs() raises is stored as the empty frame, and every other source is
\* stored as exactly what its own answer gives, whatever came before or after.
C1_Isolation ==
    /\ DOMAIN all_jobs = SourceNames \ Pending
    /\ DOMAIN web = DOMAIN all_jobs
    /\ \A name \in DOMAIN all_jobs : all_jobs[name] = ExpectedEntry(name)
    /\ (pc = "loop") = (todo # <<>>)

\* a failing source between two sources that each deliver a record
C1_Witness ==
    /\ pc = "looped"
    /\ web[GOV_UK].err # "ok"
    /\ all_jobs[GOV_UK] = EmptyFrame
    /\ FrameLen(all_jobs[TES]) = 1
    /\ FrameLen(all_jobs[RAA_School]) = 1

\* the raw fields that hold the text of a date
DateFields(source_name) ==
    IF source_name = TES THEN {"advert_startDate", "application_closeDate"}
    ELSE {"closing_date"}

\* the raw field that holds the closing date
CloseField(source_name) ==
    IF source_name = TES THEN "application_closeDate" ELSE "closing_date"

\* the raw fields a listing may come without
OptionalFields(source_name) == DateFields(source_name) \cup {"url"}

\* the format the source's dates are written in
RecognizedFormat(source_name) ==
    IF source_name = TES THEN "iso_z"
    ELSE IF source_name = RAA_School THEN "dmy_hm"
    ELSE "d_month_y"

\* the field holds a date in the source's format
GoodDate(source_name, r, x) ==
    r[x].k = "date" /\ r[x].s = <<RecognizedFormat(source_name)>>

\* the field holds text that is no date in the source's format
UnparseableDate(source_name, r, x) ==
    /\ r[x].k = "date"
    /\ \/ r[x].s = <<"junk">>
       \/ source_name = RAA_School /\ r[x].s = <<"d_month_y">>

\* every optional field the record has is as the site writes it
WellFormed(source_name, r) ==
    /\ \A x \in DateFields(source_name) \cap DOMAIN r : GoodDate(source_name, r, x)
    /\ "url" \in DOMAIN r => r["url"].k = "str"

\* the record has every optional field, and all but the closing date are as
\* the site writes them
CompleteButClose(source_name, r) ==
    /\ OptionalFields(source_name) \subseteq DOMAIN r
    /\ r["url"].k = "str"
    /\ \A x \in DateFields(source_name) \ {CloseField(source_name)} :
           GoodDate(source_name, r, x)
    /\ \/ GoodDate(source_name, r, CloseField(source_name))
       \/ UnparseableDate(source_name, r, CloseField(source_name))

\* the raw record matches the pattern in its title or its description
RawRelevant(r) ==
    \/ "title" \in DOMAIN r /\ r["title"].k = "str" /\ pattern_search(r["title"].s)
    \/ /\ "shortDescription" \in DOMAIN r /\ r["shortDescription"].k = "str"
       /\ pattern_search(r["shortDescription"].s)

\* the row carries the title and the description of the raw record
RowOf(row, r) ==
    \A x \in {"title", "shortDescription"} \cap DOMAIN r : x \in DOMAIN row /\ row[x] = r[x]

\* C2: a source whose search() returns two raw records, one matching the
\* pattern and one not, ends with exactly one stored record: the matching
\* one, with the source's name in its source field.
C2_EndToEnd ==
    \A i \in 1..2 :
        ( /\ pc \in {"stored", "stored_empty"}
          /\ Len(raw_data) = 2
          /\ WellFormed(src, raw_data[1]) /\ WellFormed(src, raw_data[2])
          /\ RawRelevant(raw_data[i]) /\ ~RawRelevant(raw_data[3 - i]) )
        => /\ FrameLen(std_df) = 1
           /\ RowOf(std_df.rows[1], raw_data[i])
           /\ \E c \in Labelled(std_df, "source") : std_df.rows[1][c] = Str(src)

\* the row matches the pattern in its title or its description
RowRelevant(df, row) ==
    \/ "title" \in df.cols /\ cell_match(row, "title")
    \/ "shortDescription" \in df.cols /\ cell_match(row, "shortDescription")

\* C3: the filter returns the rows whose title or description matches the
\* pattern, unchanged and in order, and no others; rows with neither are
\* dropped and nothing is raised.
C3_FilterIff ==
    pc \in {"filtered", "filter_raised"}
    => jobs_df = [norm EXCEPT !.rows = SelectSeq(norm.rows, LAMBDA r : RowRelevant(norm, r))]

\* C4: filtering what the filter returned changes nothing.
C4_FilterIdempotent ==
    pc = "filtered" => filter_design_tech_jobs(jobs_df) = jobs_df

\* the filter kept some rows and dropped others
C4_Witness ==
    /\ pc = "filtered"
    /\ FrameLen(jobs_df) >= 1
    /\ FrameLen(jobs_df) < FrameLen(norm)

\* the search is over
SearchOver == pc \in {"returned", "raised"}

\* pages 1, 2 and 3 hold 20, 20 and 5 records, and the source is set up to
\* read three pages, none of which says it is the last before page 3
TwentyTwentyFive ==
    /\ max_pages >= 3
    /\ web[1].n = FullPage /\ web[2].n = FullPage /\ web[3].n = ShortPage
    /\ \A p \in 1..3 : web[p].kind \in {"data", "cards"}
    /\ src = RAA_School =>
          \A p \in 1..3 : /\ web[p].pagescount # "text"
                          /\ web[p].pagescount = "number" => web[p].value >= 3

\* C5: when pages 1, 2 and 3 hold 20, 20 and 5 records, the search fetches
\* pages 1, 2 and 3 and no more, and returns the 45 records in page order.
C5_ShortPageStop ==
    (SearchOver /\ TwentyTwentyFive)
    => /\ pc = "returned"
       /\ fetched = <<1, 2, 3>>
       /\ all_jobs = PageJobs(1, FullPage) \o PageJobs(2, FullPage) \o PageJobs(3, ShortPage)

\* page 1 came back and holds no record
PageOneEmpty ==
    /\ web[1].n = 0
    /\ web[1].kind \in {"no_script", "no_path", "no_jobs_key", "data", "no_results", "cards"}

DerivedFrom(source_name, x) ==
    IF x = CloseField(source_name)
    THEN {"application_closeDate", "application_closeDate_formatted", "days_to_apply"}
    ELSE IF x = "advert_startDate" THEN {"advert_startDate_formatted"}
    ELSE {}

\* the field is null or absent in row i of the frame
NullOrAbsent(df, i, f) == f \notin df.cols \/ isna(df.rows[i][f])

\* C7: for a non-empty batch in which a record lacks an optional field,
\* normalize() raises nothing, returns one record per raw record, and the
\* field and the dates and days computed from it are null or absent in the
\* records that lack it.
C7_NormalizeTotal ==
    ( /\ pc # "searched"
      /\ raw_data # <<>>
      /\ \A i \in 1..Len(raw_data) : WellFormed(src, raw_data[i])
      /\ \E i \in 1..Len(raw_data) : OptionalFields(src) \ DOMAIN raw_data[i] # {} )
    => /\ norm.err = "ok"
       /\ FrameLen(norm) = Len(raw_data)
       /\ \A i \in 1..Len(raw_data) :
             \A x \in OptionalFields(src) \ DOMAIN raw_data[i] :
                \A f \in {x} \cup DerivedFrom(src, x) : NullOrAbsent(norm, i, f)

\* C8: a record whose closing date is in no recognized format is still in
\* what normalize() returns, with application_closeDate and days_to_apply
\* null, no record of the batch is lost, and days_to_apply is non-null only
\* where application_closeDate is.
C8_UnparseableDateNull ==
    ( /\ pc # "searched"
      /\ raw_data # <<>>
      /\ \A i \in 1..Len(raw_data) : CompleteButClose(src, raw_data[i])
      /\ \E i \in 1..Len(raw_data) : UnparseableDate(src, raw_data[i], CloseField(src)) )
    => /\ norm.err = "ok"
       /\ FrameLen(norm) = Len(raw_data)
       /\ \A i \in 1..Len(raw_data) :
             /\ UnparseableDate(src, raw_data[i], CloseField(src))
                => /\ NullOrAbsent(norm, i, "application_closeDate")
                   /\ NullOrAbsent(norm, i, "days_to_apply")
             /\ ~NullOrAbsent(norm, i, "days_to_apply")
                => ~NullOrAbsent(norm, i, "application_closeDate")

\* the page has a listing that lacks an element the extractor looks for
LacksElement ==
    IF src = TES
    THEN \E i \in 1..Len(web.jobs) : DOMAIN web.jobs[i] # DOMAIN TesJobFull
    ELSE /\ web.container
         /\ \E i \in 1..Len(web.cells) :
               /\ web.cells[i].title.k = "str" /\ web.cells[i].title.s # <<>>
               /\ Len(web.cells[i].spans) <= 1

\* C9: a page with a listing that lacks an expected element is extracted
\* without an error, and its other listings are returned.
C9_ExtractionTolerant ==
    (pc # "extracting" /\ LacksElement)
    => /\ pc = "extracted"
       /\ src = TES => Len(raw_data) = Len(web.jobs)
       /\ src = GDST =>
             \A i \in 1..Len(web.cells) :
                ( /\ Truthy(GdstJob(web.cells[i]), "title")
                  /\ "employer_name" \in DOMAIN GdstJob(web.cells[i])
                  /\ GdstWanted(GdstJob(web.cells[i])) )
                => \E j \in 1..Len(raw_data) : raw_data[j] = GdstJob(web.cells[i])

\* the presentation name of each canonical field
PresentationName ==
    [displayLocation |-> "location", contractTypes |-> "contract_type",
     contractTerms |-> "contract_term", salary_description |-> "salary",
     application_closeDate_formatted |-> "closing_date",
     days_to_apply |-> "days_remaining", shortDescription |-> "description",
     full_url |-> "url_"]

\* C10: for each of the seven sources, every canonical field get_jobs()
\* returned is stored under its presentation name and no longer under its
\* canonical name.
C10_SharedVocabulary ==
    pc = "stored"
    => \A f \in DOMAIN PresentationName :
          Labelled(jobs_df, f) # {}
          => /\ Labelled(std_df, f) = {}
             /\ Labelled(jobs_df, f) \subseteq Labelled(std_df, PresentationName[f])

\* the source_type values: those main() computes and those the branches of
\* standardize_column_names test for
SourceTypes ==
    {source_type_of(name) : name \in SourceNames}
    \cup {<<"g", "o", "v">>, <<"r", "a", "a">>,
          <<"d", "u", "n", "o", "t", "t", "a", "r">>,
          <<"w", "o", "l", "d", "i", "n", "g", "h", "a", "m">>,
          <<"s", "u", "t", "t", "o", "n", "h", "i", "g", "h">>}

\* the column names a branch replaces by another name
OldNames ==
    {k \in DOMAIN TesColumns : TesColumns[k] # k}
    \cup {k \in DOMAIN GovColumns : GovColumns[k] # k}

\* the frame has a column under one of the old names
HasOldName(df) == \E c \in df.cols : df.names[c] \in OldNames

\* C11: standardizing a standardized record set again, with the same
\* source_type, changes nothing, and a record set with none of the old
\* column names is returned as it is.
C11_StandardizeIdempotent ==
    pc \in {"filtered", "stored"}
    => \A t \in SourceTypes :
          /\ standardize_column_names(standardize_column_names(jobs_df, t), t)
                = standardize_column_names(jobs_df, t)
          /\ \A df \in {norm, jobs_df, std_df} :
                (df.err = "ok" /\ ~HasOldName(df)) => standardize_column_names(df, t) = df

\* a GDST record set whose columns were renamed
C11_Witness ==
    /\ pc = "stored"
    /\ src = GDST
    /\ FrameLen(std_df) >= 1
    /\ std_df # jobs_df
    /\ ~HasOldName(std_df)

\* C12: standardize_column_names returns the same records in the same
\* order, each field's value unchanged, and no two fields of the record set
\* get_jobs() returned end up under the same name.
C12_LosslessRename ==
    pc = "stored"
    => /\ std_df.cols = jobs_df.cols
       /\ std_df.rows = jobs_df.rows
       /\ \A c, d \in std_df.cols : std_df.names[c] = std_df.names[d] => c = d

\* normalize() has returned a frame with the days_to_apply column
DaysComputed ==
    /\ pc # "searched"
    /\ norm.err = "ok"
    /\ "days_to_apply" \in norm.cols

\* the hours from now to the close date of a row
HoursLeft(row) == row["application_closeDate"].n - now

\* C13: days_to_apply is the number of whole days from now to the close
\* date, rounded toward minus infinity: 0 when the close date is now, -1 when
\* it is one day in the past, negative whenever it is before now.
C13_DaysFloor ==
    DaysComputed
    => \A i \in 1..FrameLen(norm) :
          LET row == norm.rows[i]
              d   == row["days_to_apply"]
          IN  IF row["application_closeDate"].k # "ts" THEN isna(d)
              ELSE /\ d.k = "int"
                   /\ d.n * HoursPerDay <= HoursLeft(row)
                   /\ HoursLeft(row) < (d.n + 1) * HoursPerDay
                   /\ HoursLeft(row) = 0 => d.n = 0
                   /\ HoursLeft(row) = 0 - HoursPerDay => d.n = 0 - 1
                   /\ HoursLeft(row) < 0 => d.n < 0

\* a batch with a close date that is now and one an hour before now
C13_Witness ==
    /\ DaysComputed
    /\ \E i, j \in 1..FrameLen(norm) :
          /\ norm.rows[i]["application_closeDate"].k = "ts"
          /\ norm.rows[j]["application_closeDate"].k = "ts"
          /\ HoursLeft(norm.rows[i]) = 0 /\ norm.rows[i]["days_to_apply"].n = 0
          /\ HoursLeft(norm.rows[j]) = 0 - 1 /\ norm.rows[j]["days_to_apply"].n = 0 - 1

\* the cell holds a text that is not empty
NonEmptyText(v) == v.k = "str" /\ v.s # <<>>

\* C14: every record stored for a source has a source field equal to the
\* name it is stored under, and has a title.
C14_RecordInvariant ==
    pc = "stored"
    => \A i \in 1..FrameLen(std_df) :
          /\ \E c \in Labelled(std_df, "source") :
                NonEmptyText(std_df.rows[i][c]) /\ std_df.rows[i][c] = Str(src)
          /\ \E c \in Labelled(std_df, "title") : NonEmptyText(std_df.rows[i][c])

\* every source has its entry in all_jobs
AllProcessed == todo = <<>> /\ DOMAIN all_jobs = SourceNames

\* C15: delivery is attempted at most once and only when every source has
\* been processed; when send_email_to_recipients raises, main() goes on to
\* write the rendered document to job_listings.html and returns all_jobs.
C15_DeliveryFailureNotFatal ==
    /\ [](/\ mail.attempts <= 1
          /\ mail.attempts > 0 => AllProcessed /\ pc \in {"send_raised", "done"}
          /\ mail.error # "none" => mail.attempts = 1
          /\ (pc = "done" /\ mail.error # "none")
                => /\ mail.file = generate_master_email_content(all_jobs)
                   /\ mail.file # <<>>
                   /\ mail.returned = "all_jobs")
    /\ [][pc = "send_raised" => pc' = "done" /\ all_jobs' = all_jobs]_vars

\* the SMTP session failed and main() has ended
C15_Witness ==
    /\ pc = "done"
    /\ mail.error = "SMTPException"
    /\ mail.attempts = 1
    /\ total_jobs > 0
    /\ mail.file = mail.email_html

\* C16: when delivery is required and GMAIL_USER or GMAIL_PASS is not set,
\* the error is not recovered inside main(): main() does not end normally
\* and no fallback file is written for it.
C16_CredentialErrorSurfaces ==
    mail.error = "ValueError" => pc # "done" /\ mail.file = <<>>

\* every source that has been processed has an empty record set
AllEmpty == \A name \in DOMAIN all_jobs : FrameLen(all_jobs[name]) = 0

\* C17: when every source ends with an empty record set, main() renders the
\* document, writes it to job_listings.html, attempts no delivery even if
\* send_email is set, and returns all_jobs with an entry for every source.
C17_ZeroRecordsRun ==
    (AllEmpty /\ todo = <<>>)
    => /\ mail.attempts = 0
       /\ pc \in {"looped", "rendered", "done"}
       /\ pc = "done"
          => /\ mail.email_html = generate_master_email_content(all_jobs)
             /\ mail.file = mail.email_html
             /\ mail.file # <<>>
             /\ mail.returned = "all_jobs"
             /\ DOMAIN all_jobs = SourceNames

\* a run with send_email set in which a source fails, another lists
\* nothing, and no source stores a record
C17_Witness ==
    /\ pc = "done"
    /\ AllEmpty
    /\ mail.send_email
    /\ \E name \in SourceNames : web[name].err # "ok"
    /\ \E name \in SourceNames : web[name].err = "ok" /\ web[name].raw = <<>>
    /\ \E name \in SourceNames : web[name].err = "ok" /\ web[name].raw # <<>>

\* pages 1..k of the site are full pages of FullPage records
FullPages(k) == \A p \in 1..k : web[p].kind = "data" /\ web[p].n = FullPage

\* C18: TesJobSource.get_jobs() fetches at most max_pages pages, and it
\* fetches page max_pages when every earlier page was a full page.
C18_PageLimitHonoured ==
    src = TES
    => /\ Len(fetched) <= max_pages
       /\ (SearchOver /\ FullPages(max_pages - 1))
             => \E i \in 1..Len(fetched) : fetched[i] = max_pages

\* the two values TesJobSource.normalize computes from the start date
RecentOrOlder == {Str(<<"r", "e", "c", "e", "n", "t">>), Str(<<"o", "l", "d", "e", "r">>)}

\* the record has a start date
HasStartDate(row) == "advert_startDate" \in DOMAIN row /\ row["advert_startDate"].k = "ts"

\* C19: every normalized record has a status among recent, older and
\* current; it is recent or older only for a TES record with a start date,
\* recent exactly when that date is not earlier than 7 days before now;
\* every record of another source is current.
C19_StatusValues ==
    (pc \in {"normalized", "filtered", "stored"} /\ norm.err = "ok")
    => \A i \in 1..FrameLen(norm) :
          LET row == norm.rows[i]
          IN  /\ "status" \in norm.cols
              /\ row["status"] \in RecentOrOlder \cup {Str(Current)}
              /\ row["status"] \in RecentOrOlder => src = TES /\ HasStartDate(row)
              /\ (src = TES /\ HasStartDate(row))
                    => (row["status"] = Str(<<"r", "e", "c", "e", "n", "t">>)
                        <=> row["advert_startDate"].n >= now - RecentDays * HoursPerDay)
              /\ src # TES => row["status"] = Str(Current)

(***************************************************************************)
(* main() and the two paginated searches side by side                      *)
(***************************************************************************)
SeqInit == Init \/ SearchInit

SeqNext ==
    \/ MainStep \/ Render \/ SaveToFile \/ NoRecipients \/ Send \/ SendExcept
    \/ TesSearchStep \/ RaaSearchStep

SpecSeq == SeqInit /\ [][SeqNext]_vars

\* the sources from place k + 1 of the configured order on
SourcesFrom(k) == SubSeq(SourceOrder, k + 1, Len(SourceOrder))

\* page p made the search go on: it came, it had jobs, and none of the
\* breaks of the loop body was taken
NoStop(p) ==
    IF src = TES
    THEN web[p].kind = "data" /\ web[p].n = FullPage
    ELSE /\ web[p].kind = "cards" /\ web[p].n > 0
         /\ web[p].pagescount \in {"absent", "number"}
         /\ web[p].pagescount = "number" => p < web[p].value

\* C20: main() takes the sources in the configured order, one after the
\* other, each stored (with its records or empty after a failure) before the
\* next is started; a TES or RAA search fetches pages 1, 2, 3, ... without
\* skipping or repeating one, and fetches page k+1 only when page k was
\* fetched and triggered no stop.
C20_StrictlySequential ==
    /\ [](pc \in {"loop", "looped", "rendered", "send_raised", "done"}
          => \E k \in 0..Len(SourceOrder) :
                /\ todo = SourcesFrom(k)
                /\ DOMAIN all_jobs = {SourceOrder[i] : i \in 1..k})
    /\ [][pc = "loop" => /\ todo' = Tail(todo)
                         /\ DOMAIN all_jobs' = DOMAIN all_jobs \cup {Head(todo)}
                         /\ \A name \in DOMAIN all_jobs : all_jobs'[name] = all_jobs[name]]_vars
    /\ [](pc \in {"fetch", "returned", "raised"}
          => /\ \A i \in 1..Len(fetched) : fetched[i] = i
             /\ \A i \in 1..(Len(fetched) - 1) : NoStop(i)
             /\ pc = "fetch" => page = Len(fetched) + 1)

\* an RAA search that read three pages
C20_Witness ==
    /\ pc = "returned"
    /\ src = RAA_School
    /\ fetched = <<1, 2, 3>>
    /\ Len(all_jobs) = 2 * FullPage + ShortPage

\* page p has no __NEXT_DATA__ script, or its JSON does not lead to
\* props.pageProps.trpcState.json.queries[0].state.data
LacksEmbeddedData(p) == web[p].kind \in {"no_script", "no_path", "null_step"}

\* the records of pages 1..k, in order
RECURSIVE RecordsOfPages(_)
RecordsOfPages(k) ==
    IF k = 0 THEN <<>> ELSE RecordsOfPages(k - 1) \o PageJobs(k, web[k].n)

\* C21: when the TES search fetches a page k that has no __NEXT_DATA__ script
\* or whose JSON lacks a step of the path to the data, search() raises
\* nothing, fetches no further page, and returns exactly the records of
\* pages 1..k-1.
C21_MissingDataRecoverable ==
    src = TES
    => \A k \in 1..Len(fetched) :
          (fetched[k] = k /\ LacksEmbeddedData(k))
          => /\ pc = "returned"
             /\ Len(fetched) = k
             /\ all_jobs = RecordsOfPages(k - 1)

\* the number of sources main() has processed
Processed == Len(SourceOrder) - Len(todo)

\* the sizes of the record sets stored for the first k sources, added up
RECURSIVE StoredRecords(_)
StoredRecords(k) ==
    IF k = 0 THEN 0 ELSE StoredRecords(k - 1) + FrameLen(all_jobs[SourceOrder[k]])

\* main() took the branch that leads to delivery
TookSendBranch == mail.attempts > 0 \/ mail.returned = "None"

\* C22: after each pass of main()'s loop all_jobs has exactly the entries
\* of the sources processed so far and total_jobs is the sum of the sizes of
\* the stored record sets; at loop end all seven sources have an entry, a
\* failed source contributes 0, and the total in the subject and in the send
\* decision is that sum.
C22_AggregationInvariant ==
    /\ DOMAIN all_jobs = {SourceOrder[i] : i \in 1..Processed}
    /\ total_jobs = StoredRecords(Processed)
    /\ \A name \in DOMAIN all_jobs : web[name].err # "ok" => FrameLen(all_jobs[name]) = 0
    /\ pc # "loop" => Processed = Len(SourceOrder) /\ DOMAIN all_jobs = SourceNames
    /\ mail.attempts > 0 => mail.subject = Subject(StoredRecords(Len(SourceOrder)))
    /\ pc = "done"
       => (TookSendBranch <=> (mail.send_email /\ StoredRecords(Len(SourceOrder)) > 0))

\* a delivery whose subject counts the two records of two sources, a third
\* source having failed
C22_Witness ==
    /\ pc = "done"
    /\ mail.attempts = 1
    /\ mail.subject = Subject(2)
    /\ \E a, b \in SourceNames :
          a # b /\ FrameLen(all_jobs[a]) = 1 /\ FrameLen(all_jobs[b]) = 1
    /\ \E name \in SourceNames : web[name].err # "ok"

====
